---- MODULE Spec2Model ----
(***************************************************************************)
(* Gossip peer-sampling service of hyperbase                               *)
(* (api/internal/gossip/src/service/peer_sampling.rs).                     *)
(*                                                                         *)
(* The service (PeerSamplingService: new, run_receiver_task,               *)
(* run_sender_task, build_local_view_buffer) is modelled from its source.  *)
(* The View type it drives (crate::view::View) is not among the source     *)
(* files at hand; its operations are modelled from the design document     *)
(* (spec.md, section 4.2) and are marked so where they are defined.        *)
(*                                                                         *)
(* A peer is [id, age]; a peer's address is determined by its id, so the   *)
(* address of peer i is written i as well.                                 *)
(***************************************************************************)
EXTENDS Integers, Sequences, FiniteSets, TLC

\* ------------------------------------------------------------------ bounds
\* Two nodes run the service (A = 1, B = 2); peer 3 is known by id only and
\* does not run (an unreachable peer).
\* Largest configured view_size, healing_factor, swapping_factor.
MaxViewSize == 2
MaxHealing == 1
MaxSwapping == 1
\* Longest bootstrap peer list handed to PeerSamplingService::new.
MaxBoot == 2
\* Active rounds of all nodes together, and messages the transport feeds in
\* from peers that do not run here.
MaxRounds == 2
MaxInject == 1
\* Longest peer list, and highest age in it, that the transport feeds in.
MaxRecv == 2
MaxRecvAge == 0
\* The merge taken alone: longest resident view and highest age at its start.
MaxResident == 2
MaxMergeAge == 2
\* The handlers together: messages waiting on the inbound channel at the
\* start, and the longest peer list among them.
MaxQueued == 2
MaxQueuedPeers == 1
\* The sleep taken alone: period and period_deviation are u64 in the code;
\* here they are unsigned integers of Width bits.
Width == 3

Nodes == {1, 2}
PeerIds == {1, 2, 3}
\* Option<T>: None is the empty sequence, Some(x) the one-element sequence.
None == <<>>

Some(x) == <<x>>

IsSome(o) == o # <<>>

Unwrap(o) == o[1]

Request == "Request"
Response == "Response"

\* ------------------------------------------------------------ sequences
Min2(a, b) == IF a <= b THEN a ELSE b

Max2(a, b) == IF a >= b THEN a ELSE b

RemoveAt(s, k) == SubSeq(s, 1, k - 1) \o SubSeq(s, k + 1, Len(s))

\* The subsequence of s at the positions in keep, in order.
RECURSIVE Keep(_, _)
Keep(s, keep) ==
  IF s = <<>> THEN <<>>
  ELSE LET n == Len(s)
           front == Keep(SubSeq(s, 1, n - 1), keep)
       IN IF n \in keep THEN Append(front, s[n]) ELSE front

IdsOf(s) == {s[k].id : k \in DOMAIN s}

AgesOf(s) == {s[k].age : k \in DOMAIN s}

NoDuplicateIds(s) == \A j, k \in DOMAIN s : s[j].id = s[k].id => j = k

MaxAge(s) == CHOOSE a \in AgesOf(s) : \A b \in AgesOf(s) : b <= a

AgeIn(s, i) == s[CHOOSE k \in DOMAIN s : s[k].id = i].age

Peer(i, a) == [id |-> i, age |-> a]

\* ------------------------------------------------------------------- View
\* crate::view::View, modelled from the design document.  A view is the
\* ordered sequence of its resident entries; the local id is the node's index.

\* Duplicates of an id are coalesced into its first occurrence.
Coalesce(s) ==
  Keep(s, {k \in DOMAIN s : \A j \in 1..(k - 1) : s[j].id # s[k].id})

\* View::new(local_id, local_address, peers): the call passes no view_size.
ViewNew(local_id, peers) == Coalesce(peers)

\* View::select_peer: the entry of highest age, the first of them on a tie.
select_peer(v) ==
  IF v = <<>> THEN None
  ELSE Some(v[CHOOSE k \in DOMAIN v :
                /\ v[k].age = MaxAge(v)
                /\ \A j \in 1..(k - 1) : v[j].age < v[k].age])

\* View::increase_age
increase_age(v) == [k \in DOMAIN v |-> [v[k] EXCEPT !.age = @ + 1]]

AgedBy(v, k) == [j \in DOMAIN v |-> [v[j] EXCEPT !.age = @ + k]]

\* View::add_with_local
add_with_local(v, local_id) == Append(v, Peer(local_id, 0))

\* View::permute: any order of the entries may result.
permute(v) ==
  LET n == Len(v)
      orders == {f \in [1..n -> 1..n] : \A j, k \in 1..n : f[j] = f[k] => j = k}
  IN {[k \in 1..n |-> v[f[k]]] : f \in orders}

\* View::move_oldest_to_end: one entry of highest age goes to the tail; which
\* one on a tie is not fixed by the design document.
move_oldest_to_end(v) ==
  IF v = <<>> THEN {v}
  ELSE {Append(RemoveAt(v, k), v[k]) : k \in {j \in DOMAIN v : v[j].age = MaxAge(v)}}

\* View::head
head(v, n) == SubSeq(v, 1, Min2(n, Len(v)))

\* Step 1 of View::select: the union of resident and received entries by id,
\* without the local id; an id present more than once is kept once, age 0.
Unite(resident, received, local_id) ==
  LET cat == resident \o SelectSeq(received, LAMBDA p : p.id # local_id)
      first == Coalesce(cat)
      times(i) == Cardinality({k \in DOMAIN cat : cat[k].id = i})
  IN [k \in DOMAIN first |->
        IF times(first[k].id) > 1 THEN Peer(first[k].id, 0) ELSE first[k]]

\* Healing: h of the oldest entries are removed (any of them on a tie).
Healed(v, h) ==
  {Keep(v, DOMAIN v \ R) :
     R \in {X \in SUBSET DOMAIN v :
              /\ Cardinality(X) = h
              /\ \A r \in X, k \in DOMAIN v \ X : v[r].age >= v[k].age}}

\* Swapping: s entries chosen at random are removed.
Swapped(v, s) ==
  {Keep(v, DOMAIN v \ R) : R \in {X \in SUBSET DOMAIN v : Cardinality(X) = s}}

\* View::select(view_size, healing_factor, swapping_factor, received_peers):
\* union, then healing, then swapping, then the residual overflow is cut from
\* the tail (the newest arrivals).  The set of views that may result.
select(resident, local_id, view_size, healing_factor, swapping_factor, received) ==
  LET u == Unite(resident, received, local_id)
      h == Min2(healing_factor, Max2(0, Len(u) - view_size))
  IN UNION {{head(w, view_size) :
               w \in Swapped(x, Min2(swapping_factor, Max2(0, Len(x) - view_size)))} :
             x \in Healed(u, h)}

\* ---------------------------------------------------------------- service
VARIABLES
  live,      \* the nodes that run the service; the other peers do not answer
  cfg,       \* PeerSamplingConfig, the same on every node, fixed at start
  boot,      \* boot[n]: the bootstrap peer list given to new on node n
  view,      \* view[n]: the resident entries of node n's View
  lock,      \* lock[n]: who holds the Mutex around node n's View
  spc,       \* spc[n]: where node n's run_sender_task stands
  peer,      \* peer[n]: the Option<Peer> select_peer returned this round
  rx,        \* rx[n]: node n's inbound channel
  tasks,     \* tasks[n]: the handler tasks run_receiver_task has spawned
  spawned,   \* spawned[n]: how many handler tasks node n has spawned
  lastBuf,   \* lastBuf[n]: the last buffer built on n and the view it was built of
  pre,       \* pre[n]: Some(view before select) while a handler stands right after it
  base,      \* base[n]: the resident view after the last select (or new)
  ticks,     \* ticks[n]: rounds and messages that aged the view since then
  rounds,    \* rounds[n]: active rounds node n has worked through
  handled,   \* handled[n]: inbound messages node n has handled to the end
  injected,  \* messages the transport has fed in from peers that do not run here
  out,       \* out[n]: the client::send calls made under the present hold of the lock
  held,      \* held[n]: Some(view as it was when the lock was taken), None when free
  rcv,       \* rcv[n]: the inbound channel and its loop: "open", "closed", "ended"
  slept,     \* slept[n]: Some(milliseconds of the present sleep), None when not asleep
  prev,      \* prev[n]: Some(id of the peer of the last round) until a merge is made
  db,        \* the Db behind the daos: token rows, collection rules, bucket rules
  dao        \* the TokenDao call in flight or the last one returned

vars == <<live, cfg, boot, view, lock, spc, peer, rx, tasks, spawned, lastBuf, pre,
          base, ticks, rounds, handled, injected, out, held, rcv, slept, prev, db, dao>>

Free == [kind |-> "free", tid |-> 0]

BySender == [kind |-> "sender", tid |-> 0]

ByHandler(t) == [kind |-> "handler", tid |-> t]

Message(from, kind, peers) == [from |-> from, kind |-> kind, peers |-> peers]

\* One call of client::send and how it ended.
Call(to, msg, ok) == [to |-> to, msg |-> msg, ok |-> ok]

\* As LockGranted, the lock given whoever holds it.
LockGranted_always(l) == TRUE

\* view.lock().await returns once nobody holds the Mutex.
LockGranted(l) == l = Free

\* As Replying, the kind of the message not looked at.
Replying_any_kind(c, msg) == c.pull

\* As Replying, the pull flag not looked at.
Replying_any_request(c, msg) == msg.kind = Request

\* run_receiver_task: kind == MessageKind::Request && *config.pull()
Replying(c, msg) == msg.kind = Request /\ c.pull

\* As Pushing, the buffer attached whatever the flag.
Pushing_always(c) == TRUE

\* run_sender_task: if *config.push()
Pushing(c) == c.push

\* As AfterSend, the peers dropped when the send failed.
AfterSend_abort(sends, peers) ==
  IF \E k \in DOMAIN sends : ~sends[k].ok THEN None ELSE peers

\* run_receiver_task: both arms of the match on the send's result only log;
\* the handler goes on to the peers of the message.
AfterSend(sends, peers) == peers

\* PeerSamplingService::new: the view is built of the bootstrap peers.
ServiceNew(local_id, peers) == ViewNew(local_id, peers)

\* As build_local_view_buffer, working on the resident view itself.
build_local_view_buffer_in_place(view_size, v, local_id) ==
  {[buffer |-> head(m, view_size), resident |-> m] :
     m \in UNION {move_oldest_to_end(q) : q \in permute(add_with_local(v, local_id))}}

\* As build_local_view_buffer, without the final head(view_size).
build_local_view_buffer_whole(view_size, v, local_id) ==
  {[buffer |-> m, resident |-> v] :
     m \in UNION {move_oldest_to_end(q) : q \in permute(add_with_local(v, local_id))}}

\* build_local_view_buffer: the buffers that may result, each with the
\* resident view the call leaves behind (it works on a clone).
build_local_view_buffer(view_size, v, local_id) ==
  {[buffer |-> head(m, view_size), resident |-> v] :
     m \in UNION {move_oldest_to_end(q) : q \in permute(add_with_local(v, local_id))}}

\* As ReceiverSelect, select called for every Some(list), the empty one too.
ReceiverSelect_any_list(c, v, local_id, peers) ==
  IF IsSome(peers)
  THEN select(v, local_id, c.view_size, c.healing_factor, c.swapping_factor,
              Unwrap(peers))
  ELSE {v}

\* As ReceiverSelect, one entry more cut from the tail of what select leaves.
ReceiverSelect_over_trimmed(c, v, local_id, peers) ==
  IF IsSome(peers) /\ Len(Unwrap(peers)) > 0
  THEN {head(w, Max2(0, Len(w) - 1)) :
          w \in select(v, local_id, c.view_size, c.healing_factor, c.swapping_factor,
                       Unwrap(peers))}
  ELSE {v}

\* As ReceiverSelect, the merge never made.
ReceiverSelect_ignored(c, v, local_id, peers) == {v}

\* As ReceiverSelect, the received peers appended to the view as they come.
ReceiverSelect_extend(c, v, local_id, peers) ==
  IF IsSome(peers) /\ Len(Unwrap(peers)) > 0 THEN {v \o Unwrap(peers)} ELSE {v}

\* As ReceiverSelect, select given one entry more than view_size.
ReceiverSelect_off_by_one(c, v, local_id, peers) ==
  IF IsSome(peers) /\ Len(Unwrap(peers)) > 0
  THEN select(v, local_id, c.view_size + 1, c.healing_factor, c.swapping_factor,
              Unwrap(peers))
  ELSE {v}

\* As ReceiverSelect, healing_factor and swapping_factor passed in each
\* other's place.
ReceiverSelect_swapped_factors(c, v, local_id, peers) ==
  IF IsSome(peers) /\ Len(Unwrap(peers)) > 0
  THEN select(v, local_id, c.view_size, c.swapping_factor, c.healing_factor,
              Unwrap(peers))
  ELSE {v}

\* As ReceiverSelect, the first received peer left out of the merge.
ReceiverSelect_skip_first(c, v, local_id, peers) ==
  IF IsSome(peers) /\ Len(Unwrap(peers)) > 0
  THEN select(v, local_id, c.view_size, c.healing_factor, c.swapping_factor,
              Tail(Unwrap(peers)))
  ELSE {v}

\* run_receiver_task, the merge of a message's peers: select is called for
\* Some(non-empty list) only.  The views that may result.
ReceiverSelect(c, v, local_id, peers) ==
  IF IsSome(peers) /\ Len(Unwrap(peers)) > 0
  THEN select(v, local_id, c.view_size, c.healing_factor, c.swapping_factor,
              Unwrap(peers))
  ELSE {v}

\* As RepliedOf, the peers of the message merged before the reply is built.
RepliedOf_merged(c, v, local_id, peers) ==
  CHOOSE w \in ReceiverSelect(c, v, local_id, peers) : TRUE

\* run_receiver_task: the reply is built of the view as the handler found
\* it; the select of the message's peers comes after.
RepliedOf(c, v, local_id, peers) == v

\* As AfterMessage, increase_age called twice.
AfterMessage_twice(v) == increase_age(increase_age(v))

\* As AfterMessage, the increase_age call forgotten.
AfterMessage_skipped(v) == v

\* run_receiver_task: view.increase_age() closes the handling of a message.
AfterMessage(v) == increase_age(v)

\* As SenderPeer, the first entry of the view taken.
SenderPeer_first(v) == IF v = <<>> THEN None ELSE Some(v[1])

\* run_sender_task: the peer of the round.
SenderPeer(v) == select_peer(v)

\* As AfterRound, the increase_age call forgotten.
AfterRound_skipped(v) == v

\* As AfterRound, the first entry moved to the tail after increase_age.
AfterRound_rotated(v) ==
  IF v = <<>> THEN v ELSE Append(Tail(increase_age(v)), increase_age(v)[1])

\* As AfterRound, increase_age called twice.
AfterRound_twice(v) == increase_age(increase_age(v))

\* run_sender_task: view.increase_age() closes a round that had a peer.
AfterRound(v) == increase_age(v)

\* client::send(to, message): Ok puts the message on the inbound channel of a
\* node that runs; nothing arrives on Err or at a peer that does not run.
Sent(chan, to, msg, ok) ==
  IF ok /\ to \in DOMAIN chan THEN [chan EXCEPT ![to] = Append(@, msg)] ELSE chan

\* ------------------------------------------------------------------ inputs
Configs ==
  [view_size : 1..MaxViewSize, healing_factor : 0..MaxHealing,
   swapping_factor : 0..MaxSwapping, push : BOOLEAN, pull : BOOLEAN,
   period : {1}, period_deviation : {0}]

SeqsUpTo(S, n) == UNION {[1..k -> S] : k \in 0..n}

\* Bootstrap lists name other peers, possibly the same one twice; a peer
\* built of (id, address) has age 0.
BootLists(n) == SeqsUpTo({Peer(i, 0) : i \in PeerIds \ {n}}, MaxBoot)

\* What the transport may feed in from a peer that does not run here: either
\* kind, with no list, an empty list, or a list that may repeat an id.
EnvMessages ==
  {Message(f, k, d) :
     f \in PeerIds \ live, k \in {Request, Response},
     d \in {None} \cup
           {Some(l) : l \in SeqsUpTo({Peer(i, a) : i \in PeerIds, a \in 0..MaxRecvAge},
                                     MaxRecv)}}

\* --------------------------------------------------------------------- Init
\* The state after PeerSamplingService::new on the nodes of L, node n with
\* the bootstrap list b[n], and with q[n] waiting on its inbound channel when
\* run starts the loops.
Service(L, b, q) ==
  /\ live = L
  /\ boot = b
  /\ view = [n \in L |-> ServiceNew(n, b[n])]
  /\ lock = [n \in L |-> Free]
  /\ spc = [n \in L |-> "idle"]
  /\ peer = [n \in L |-> None]
  /\ rx = q
  /\ tasks = [n \in L |-> {}]
  /\ spawned = [n \in L |-> 0]
  /\ lastBuf = [n \in L |-> None]
  /\ pre = [n \in L |-> None]
  /\ base = view
  /\ ticks = [n \in L |-> 0]
  /\ rounds = [n \in L |-> 0]
  /\ handled = [n \in L |-> 0]
  /\ injected = 0
  /\ out = [n \in L |-> <<>>]
  /\ held = [n \in L |-> None]
  /\ rcv = [n \in L |-> "open"]
  /\ slept = [n \in L |-> None]
  /\ prev = [n \in L |-> None]

\* No Db is attached to the gossip service and no TokenDao call is made.
NoDb == [tokens |-> {}, collection_rules |-> {}, bucket_rules |-> <<>>]

NoCall ==
  [op |-> "none", id |-> 0, bucket |-> 0, pc |-> "idle", col |-> "pending",
   buc |-> "pending", was |-> FALSE, result |-> "none", allow |-> FALSE]

Started(L, b, q) == Service(L, b, q) /\ db = NoDb /\ dao = NoCall

Constructed(L, b) == Started(L, b, [n \in L |-> <<>>])

\* One node (A) runs; its peers are known by id and what they send is fed in
\* by the transport.
Init ==
  /\ cfg \in Configs
  /\ \E l \in BootLists(1) : Constructed({1}, [n \in {1} |-> l])

RECURSIVE Sum(_, _)
Sum(f, S) == IF S = {} THEN 0 ELSE LET x == CHOOSE y \in S : TRUE IN f[x] + Sum(f, S \ {x})

RoundsDone == Sum(rounds, live)

\* ------------------------------------------------------- run_sender_task
\* As GuardAfterRound, the guard dropped before the sleep.
GuardAfterRound_dropped(l) == Free

\* run_sender_task: the guard taken at the head of the loop body lives to its
\* end, so the lock is still the sender's when the loop goes to sleep.
GuardAfterRound(l) == l

\* run_sender_task: 0 for period_deviation 0, else gen_range(0..=val).
Deviations(c) == IF c.period_deviation = 0 THEN {0} ELSE 0..c.period_deviation

\* sleep_duration = period + deviation in unsigned arithmetic: a sum beyond
\* the width panics in a build that checks overflow and wraps in one that
\* does not.
Sleeps(c) ==
  UNION {IF c.period + d < 2^Width
         THEN {[panic |-> FALSE, ms |-> c.period + d]}
         ELSE {[panic |-> FALSE, ms |-> (c.period + d) % 2^Width],
               [panic |-> TRUE, ms |-> 0]} : d \in Deviations(c)}

\* The loop body ends with the sleep s, the lock held by the sender, h and o
\* being what held and out are then.  A panic of the sum unwinds the task
\* that runs both loops: the guard is dropped and the receiving loop is gone.
Slumber(n, s, h, o) ==
  IF s.panic
  THEN /\ spc' = [spc EXCEPT ![n] = "panicked"]
       /\ slept' = [slept EXCEPT ![n] = None]
       /\ lock' = [lock EXCEPT ![n] = Free]
       /\ held' = [held EXCEPT ![n] = None]
       /\ out' = [out EXCEPT ![n] = <<>>]
       /\ rcv' = [rcv EXCEPT ![n] = "ended"]
  ELSE /\ spc' = [spc EXCEPT ![n] = "sleep"]
       /\ slept' = [slept EXCEPT ![n] = Some(s.ms)]
       /\ lock' = [lock EXCEPT ![n] = GuardAfterRound(BySender)]
       /\ held' = [held EXCEPT ![n] = h]
       /\ out' = [out EXCEPT ![n] = o]
       /\ rcv' = rcv

\* One pass of the loop up to the send or, without a peer, to the sleep:
\* view.lock().await, select_peer, and with a peer the Request, carrying the
\* buffer when push is set and no list otherwise; the send ends Ok or Err.
SenderRound(n) ==
  /\ spc[n] = "idle"
  /\ RoundsDone + Cardinality({m \in live : spc[m] = "sent"}) < MaxRounds
  /\ LockGranted(lock[n])
  /\ LET p == SenderPeer(view[n]) IN
     /\ peer' = [peer EXCEPT ![n] = p]
     /\ IF IsSome(p)
        THEN /\ spc' = [spc EXCEPT ![n] = "sent"]
             /\ lock' = [lock EXCEPT ![n] = BySender]
             /\ held' = [held EXCEPT ![n] = Some(view[n])]
             /\ rounds' = rounds
             /\ \E ok \in BOOLEAN :
                  IF Pushing(cfg)
                  THEN \E b \in build_local_view_buffer(cfg.view_size, view[n], n) :
                         LET m == Message(n, Request, Some(b.buffer)) IN
                         /\ view' = [view EXCEPT ![n] = b.resident]
                         /\ lastBuf' = [lastBuf EXCEPT ![n] =
                                          Some([buffer |-> b.buffer, of |-> view[n]])]
                         /\ rx' = Sent(rx, Unwrap(p).id, m, ok)
                         /\ out' = [out EXCEPT ![n] = Append(@, Call(Unwrap(p).id, m, ok))]
                  ELSE LET m == Message(n, Request, None) IN
                       /\ rx' = Sent(rx, Unwrap(p).id, m, ok)
                       /\ out' = [out EXCEPT ![n] = Append(@, Call(Unwrap(p).id, m, ok))]
                       /\ UNCHANGED <<view, lastBuf>>
             /\ UNCHANGED <<slept, rcv>>
        ELSE /\ rounds' = [rounds EXCEPT ![n] = @ + 1]
             /\ \E s \in Sleeps(cfg) : Slumber(n, s, Some(view[n]), out[n])
             /\ UNCHANGED <<view, lastBuf, rx>>
  /\ UNCHANGED <<db, dao, live, cfg, boot, tasks, spawned, pre, base, ticks, handled, injected,
                 prev>>

\* The send has returned: view.increase_age(), whatever the outcome, and the
\* loop goes to sleep with the guard still held.
SenderAge(n) ==
  /\ spc[n] = "sent"
  /\ view' = [view EXCEPT ![n] = AfterRound(@)]
  /\ ticks' = [ticks EXCEPT ![n] = @ + 1]
  /\ rounds' = [rounds EXCEPT ![n] = @ + 1]
  /\ lastBuf' = [lastBuf EXCEPT ![n] = None]
  /\ \E s \in Sleeps(cfg) : Slumber(n, s, held[n], out[n])
  /\ UNCHANGED <<db, dao, live, cfg, boot, peer, rx, tasks, spawned, pre, base, handled,
                 injected, prev>>

\* The sleep ends; the guard is dropped at the end of the loop body.
SenderWake(n) ==
  /\ spc[n] = "sleep"
  /\ spc' = [spc EXCEPT ![n] = "idle"]
  /\ peer' = [peer EXCEPT ![n] = None]
  /\ prev' = [prev EXCEPT ![n] = IF IsSome(peer[n]) THEN Some(Unwrap(peer[n]).id) ELSE None]
  /\ lock' = [lock EXCEPT ![n] = Free]
  /\ out' = [out EXCEPT ![n] = <<>>]
  /\ held' = [held EXCEPT ![n] = None]
  /\ slept' = [slept EXCEPT ![n] = None]
  /\ UNCHANGED <<db, dao, live, cfg, boot, view, rx, tasks, spawned, lastBuf, pre, base, ticks,
                 rounds, handled, injected, rcv>>

\* ----------------------------------------------------- run_receiver_task
\* The transport feeds the inbound channel.
Inject(n, m) ==
  /\ injected < MaxInject
  /\ rcv[n] = "open"
  /\ injected' = injected + 1
  /\ rx' = [rx EXCEPT ![n] = Append(@, m)]
  /\ UNCHANGED <<db, dao, live, cfg, boot, view, lock, spc, peer, tasks, spawned, lastBuf, pre,
                 base, ticks, rounds, handled, out, held, rcv,
                 slept, prev>>

\* receiver.recv().await, then tokio::spawn of the handler.
Recv(n) ==
  /\ rcv[n] # "ended"
  /\ rx[n] # <<>>
  /\ rx' = [rx EXCEPT ![n] = Tail(@)]
  /\ spawned' = [spawned EXCEPT ![n] = @ + 1]
  /\ tasks' = [tasks EXCEPT ![n] =
                 @ \cup {[tid |-> spawned[n] + 1, msg |-> Head(rx[n]), pc |-> "wait"]}]
  /\ UNCHANGED <<db, dao, live, cfg, boot, view, lock, spc, peer, lastBuf, pre, base, ticks,
                 rounds, handled, injected, out, held, rcv,
                 slept, prev>>

\* Every UnboundedSender of the inbound channel (the one new returned, and
\* its clones) is dropped.
DropSenders(n) ==
  /\ rcv[n] = "open"
  /\ rcv' = [rcv EXCEPT ![n] = "closed"]
  /\ UNCHANGED <<db, dao, live, cfg, boot, view, lock, spc, peer, rx, tasks, spawned, lastBuf,
                 pre, base, ticks, rounds, handled, injected, out, held,
                 slept, prev>>

\* receiver.recv().await returns None on a closed and drained channel: the
\* while-let loop is left and run_receiver_task returns.
ReceiverEnds(n) ==
  /\ rcv[n] = "closed"
  /\ rx[n] = <<>>
  /\ rcv' = [rcv EXCEPT ![n] = "ended"]
  /\ UNCHANGED <<db, dao, live, cfg, boot, view, lock, spc, peer, rx, tasks, spawned, lastBuf,
                 pre, base, ticks, rounds, handled, injected, out, held,
                 slept, prev>>

Moved(ts, t, pc) == (ts \ {t}) \cup {[t EXCEPT !.pc = pc]}

\* view.lock().await in the handler; a Request is answered when pull is set:
\* the buffer is built and sent as a Response to the sender's address, and the
\* send ends Ok or Err.
HandlerReply(n, t) ==
  /\ t \in tasks[n]
  /\ t.pc = "wait"
  /\ LockGranted(lock[n])
  /\ lock' = [lock EXCEPT ![n] = ByHandler(t.tid)]
  /\ held' = [held EXCEPT ![n] = Some(view[n])]
  /\ tasks' = [tasks EXCEPT ![n] = Moved(@, t, "replied")]
  /\ IF Replying(cfg, t.msg)
     THEN \E ok \in BOOLEAN :
            \E b \in build_local_view_buffer(
                       cfg.view_size, RepliedOf(cfg, view[n], n, t.msg.peers), n) :
              LET m == Message(n, Response, Some(b.buffer)) IN
              /\ view' = [view EXCEPT ![n] = b.resident]
              /\ lastBuf' = [lastBuf EXCEPT ![n] =
                               Some([buffer |-> b.buffer, of |-> view[n]])]
              /\ rx' = Sent(rx, t.msg.from, m, ok)
              /\ out' = [out EXCEPT ![n] = Append(@, Call(t.msg.from, m, ok))]
     ELSE UNCHANGED <<view, lastBuf, rx, out>>
  /\ UNCHANGED <<db, dao, live, cfg, boot, spc, peer, spawned, pre, base, ticks, rounds,
                 handled, injected, rcv,
                 slept, prev>>

\* The peers of the message are merged: select for Some(non-empty list).
HandlerMerge(n, t) ==
  /\ t \in tasks[n]
  /\ t.pc = "replied"
  /\ tasks' = [tasks EXCEPT ![n] = Moved(@, t, "merged")]
  /\ lastBuf' = [lastBuf EXCEPT ![n] = None]
  /\ LET peers == AfterSend(out[n], t.msg.peers) IN
     \E v \in ReceiverSelect(cfg, view[n], n, peers) :
       /\ view' = [view EXCEPT ![n] = v]
       /\ IF IsSome(peers) /\ Len(Unwrap(peers)) > 0
          THEN /\ pre' = [pre EXCEPT ![n] = Some(view[n])]
               /\ base' = [base EXCEPT ![n] = v]
               /\ ticks' = [ticks EXCEPT ![n] = 0]
               /\ prev' = [prev EXCEPT ![n] = None]
          ELSE UNCHANGED <<pre, base, ticks, prev>>
  /\ UNCHANGED <<db, dao, live, cfg, boot, lock, spc, peer, rx, spawned, rounds, handled, injected,
                 out, held, rcv,
                 slept>>

\* view.increase_age(), and the guard is dropped as the handler ends.
HandlerAge(n, t) ==
  /\ t \in tasks[n]
  /\ t.pc = "merged"
  /\ tasks' = [tasks EXCEPT ![n] = @ \ {t}]
  /\ view' = [view EXCEPT ![n] = AfterMessage(@)]
  /\ ticks' = [ticks EXCEPT ![n] = @ + 1]
  /\ handled' = [handled EXCEPT ![n] = @ + 1]
  /\ pre' = [pre EXCEPT ![n] = None]
  /\ lock' = [lock EXCEPT ![n] = Free]
  /\ out' = [out EXCEPT ![n] = <<>>]
  /\ held' = [held EXCEPT ![n] = None]
  /\ UNCHANGED <<db, dao, live, cfg, boot, spc, peer, rx, spawned, lastBuf, base, rounds, injected,
                 rcv,
                 slept, prev>>

Next ==
  \/ \E n \in live : SenderRound(n)
  \/ \E n \in live : SenderAge(n)
  \/ \E n \in live : SenderWake(n)
  \/ \E n \in live, m \in EnvMessages : Inject(n, m)
  \/ \E n \in live : Recv(n)
  \/ \E n \in live : \E t \in tasks[n] : HandlerReply(n, t)
  \/ \E n \in live : \E t \in tasks[n] : HandlerMerge(n, t)
  \/ \E n \in live : \E t \in tasks[n] : HandlerAge(n, t)

Spec == Init /\ [][Next]_vars

\* ------------------------------------------------------- the merge alone
\* One node at rest with any view, and one inbound message with any peer
\* list: the passive loop handles it.  The peers are drawn from four ids, so
\* that a merge can overflow view_size by more than one entry.
MergeIds == PeerIds \cup {4}

MergePeers == {Peer(i, a) : i \in MergeIds, a \in 0..MaxMergeAge}

\* A view at rest is as new and the rounds since left it (every age the same)
\* or as a handler left it (at most view_size entries, every age above 0).
RestViews(c) ==
  {v \in SeqsUpTo(MergePeers, MaxResident) :
     /\ NoDuplicateIds(v)
     /\ 1 \notin IdsOf(v)
     /\ \/ Cardinality(AgesOf(v)) <= 1
        \/ Len(v) <= c.view_size /\ 0 \notin AgesOf(v)}

\* view_size = 3, healing_factor = 2, swapping_factor = 1 and six candidates of
\* ages 10, 9, 1, 1, 1, 1 in any order: three resident, three received (or
\* the first one or two of the three, for an overflow below healing_factor).
HealingConfig ==
  [view_size |-> 3, healing_factor |-> 2, swapping_factor |-> 1,
   push |-> TRUE, pull |-> TRUE, period |-> 1, period_deviation |-> 0]

HealingAges ==
  {f \in [1..6 -> {1, 9, 10}] :
     /\ Cardinality({k \in 1..6 : f[k] = 10}) = 1
     /\ Cardinality({k \in 1..6 : f[k] = 9}) = 1}

InitMerge ==
  /\ \/ \E c \in Configs, l \in SeqsUpTo(MergePeers, MaxRecv) :
          /\ c.push /\ c.pull
          /\ cfg = c
          /\ \E v \in RestViews(c) : view = [n \in {1} |-> v]
          /\ rx = [n \in {1} |-> <<Message(2, Response, Some(l))>>]
     \/ \E f \in HealingAges, m \in 1..3 :
          /\ cfg = HealingConfig
          /\ view = [n \in {1} |-> [k \in 1..3 |-> Peer(k + 1, f[k])]]
          /\ rx = [n \in {1} |->
                     <<Message(2, Response, Some([k \in 1..m |-> Peer(k + 4, f[k + 3])]))>>]
  /\ live = {1}
  /\ boot = [n \in {1} |-> [k \in DOMAIN view[n] |-> Peer(view[n][k].id, 0)]]
  /\ lock = [n \in live |-> Free]
  /\ spc = [n \in live |-> "idle"]
  /\ peer = [n \in live |-> None]
  /\ tasks = [n \in live |-> {}]
  /\ spawned = [n \in live |-> 0]
  /\ lastBuf = [n \in live |-> None]
  /\ pre = [n \in live |-> None]
  /\ base = view
  /\ ticks = [n \in live |-> 0]
  /\ rounds = [n \in live |-> 0]
  /\ handled = [n \in live |-> 0]
  /\ injected = 0
  /\ out = [n \in live |-> <<>>]
  /\ held = [n \in live |-> None]
  /\ rcv = [n \in live |-> "open"]
  /\ slept = [n \in live |-> None]
  /\ prev = [n \in live |-> None]
  /\ db = NoDb
  /\ dao = NoCall

NextMerge ==
  \/ \E n \in live : Recv(n)
  \/ \E n \in live : \E t \in tasks[n] : HandlerReply(n, t)
  \/ \E n \in live : \E t \in tasks[n] : HandlerMerge(n, t)
  \/ \E n \in live : \E t \in tasks[n] : HandlerAge(n, t)

SpecMerge == InitMerge /\ [][NextMerge]_vars

\* ------------------------------------------------------------- two nodes
\* A (view = [B]) and B (view = [A]) run the service and reach each other;
\* nothing else is fed in.
PairBoot == [n \in Nodes |-> <<Peer(CHOOSE m \in Nodes : m # n, 0)>>]

InitPair ==
  /\ cfg \in Configs
  /\ Constructed(Nodes, PairBoot)

NextPair ==
  \/ \E n \in live : SenderRound(n)
  \/ \E n \in live : SenderAge(n)
  \/ \E n \in live : SenderWake(n)
  \/ \E n \in live : Recv(n)
  \/ \E n \in live : \E t \in tasks[n] : HandlerReply(n, t)
  \/ \E n \in live : \E t \in tasks[n] : HandlerMerge(n, t)
  \/ \E n \in live : \E t \in tasks[n] : HandlerAge(n, t)

SpecPair == InitPair /\ [][NextPair]_vars

\* ------------------------------------------------ the handlers together
\* One node whose inbound channel holds up to MaxQueued messages when the
\* passive loop starts; each is handed to a task of its own, and the tasks
\* take the lock in any order.  The active loop is left aside, and the
\* messages are Responses, which are merged and not answered.
QueuedMessages ==
  {Message(2, Response, d) :
     d \in {None} \cup {Some(l) : l \in SeqsUpTo({Peer(2, 0), Peer(3, 0)}, MaxQueuedPeers)}}

Queues == UNION {[1..k -> QueuedMessages] : k \in 1..MaxQueued}

InitHandlers ==
  /\ cfg \in {c \in Configs : c.push /\ c.pull}
  /\ \E l \in {b \in BootLists(1) : NoDuplicateIds(b)}, q \in Queues :
       Started({1}, [n \in {1} |-> l], [n \in {1} |-> q])

NextHandlers ==
  \/ \E n \in live : Recv(n)
  \/ \E n \in live : \E t \in tasks[n] : HandlerReply(n, t)
  \/ \E n \in live : \E t \in tasks[n] : HandlerMerge(n, t)
  \/ \E n \in live : \E t \in tasks[n] : HandlerAge(n, t)

\* The runtime goes on running the receiving loop and the spawned tasks, and
\* the Mutex hands the free lock to a task that waits for it.
FairHandlers == WF_vars(NextHandlers)

SpecHandlers == InitHandlers /\ [][NextHandlers]_vars /\ FairHandlers

\* --------------------------------------------------------- a starved node
\* One node that was given no bootstrap peer: its view is empty until the
\* transport feeds in a message.  Both loops go on as long as they can.
InitStarved ==
  /\ cfg \in Configs
  /\ Constructed({1}, [n \in {1} |-> <<>>])

NextStarved ==
  \/ \E n \in live : SenderRound(n)
  \/ \E n \in live : SenderAge(n)
  \/ \E n \in live : SenderWake(n)
  \/ \E n \in live, m \in EnvMessages : Inject(n, m)
  \/ \E n \in live : Recv(n)
  \/ \E n \in live : \E t \in tasks[n] : HandlerReply(n, t)
  \/ \E n \in live : \E t \in tasks[n] : HandlerMerge(n, t)
  \/ \E n \in live : \E t \in tasks[n] : HandlerAge(n, t)

\* The runtime goes on running both loops and the spawned tasks.
FairStarved == WF_vars(NextStarved)

SpecStarved == InitStarved /\ [][NextStarved]_vars /\ FairStarved

\* ---------------------------------------------------- the channel closed
\* One node as in Spec, given at most one bootstrap peer; the holders of the
\* inbound channel's senders may drop them at any time.
InitClosure ==
  /\ cfg \in Configs
  /\ \E l \in {b \in BootLists(1) : Len(b) <= 1} : Constructed({1}, [n \in {1} |-> l])

NextClosure ==
  \/ \E n \in live : SenderRound(n)
  \/ \E n \in live : SenderAge(n)
  \/ \E n \in live : SenderWake(n)
  \/ \E n \in live, m \in EnvMessages : Inject(n, m)
  \/ \E n \in live : DropSenders(n)
  \/ \E n \in live : Recv(n)
  \/ \E n \in live : ReceiverEnds(n)
  \/ \E n \in live : \E t \in tasks[n] : HandlerReply(n, t)
  \/ \E n \in live : \E t \in tasks[n] : HandlerMerge(n, t)
  \/ \E n \in live : \E t \in tasks[n] : HandlerAge(n, t)

SpecClosure == InitClosure /\ [][NextClosure]_vars

\* ------------------------------------------------------- the sleep alone
\* One node with no peer or one, and nothing fed in: the active loop runs its
\* rounds with any period and period_deviation of the width.
SleepConfigs ==
  [view_size : {1}, healing_factor : {0}, swapping_factor : {0},
   push : {TRUE}, pull : {TRUE},
   period : 0..(2^Width - 1), period_deviation : 0..(2^Width - 1)]

InitSleep ==
  /\ cfg \in SleepConfigs
  /\ \E l \in {<<>>, <<Peer(2, 0)>>} : Constructed({1}, [n \in {1} |-> l])

NextSleep ==
  \/ \E n \in live : SenderRound(n)
  \/ \E n \in live : SenderAge(n)
  \/ \E n \in live : SenderWake(n)

SpecSleep == InitSleep /\ [][NextSleep]_vars

\* ------------------------------------------------------------ the TokenDao
\* The rows behind TokenDao: token rows by id, the collection rules and the
\* bucket rules of each token.  A bucket rule holds one flag per file
\* operation; BucketRuleDao::db_select_by_token_id_and_bucket_id gives the
\* rule of (token id, bucket id) or an Err when there is none.
TokenIds == {1, 2}

BucketIds == {1}

CollectionIds == {1}

BucketRules ==
  [find_one : {TRUE}, find_many : {TRUE}, insert_one : BOOLEAN,
   update_one : BOOLEAN, delete_one : BOOLEAN]

Dbs ==
  [tokens : SUBSET TokenIds,
   collection_rules : SUBSET (TokenIds \X CollectionIds),
   bucket_rules : [TokenIds \X BucketIds -> {None} \cup {Some(r) : r \in BucketRules}]]

\* Ok(rule) is Some(rule), Err is None.
db_select_by_token_id_and_bucket_id(d, token_id, bucket_id) ==
  d.bucket_rules[<<token_id, bucket_id>>]

is_allow_update_file(d, id, bucket_id) ==
  LET bucket_rule_data == db_select_by_token_id_and_bucket_id(d, id, bucket_id)
  IN  IF IsSome(bucket_rule_data) THEN Unwrap(bucket_rule_data).update_one ELSE FALSE

is_allow_delete_file(d, id, bucket_id) ==
  LET bucket_rule_data == db_select_by_token_id_and_bucket_id(d, id, bucket_id)
  IN  IF IsSome(bucket_rule_data) THEN Unwrap(bucket_rule_data).update_one ELSE FALSE

Callable == dao.pc \in {"idle", "returned"}

Asked(op, id, bucket_id, allow) ==
  [NoCall EXCEPT !.op = op, !.id = id, !.bucket = bucket_id, !.pc = "returned",
                 !.allow = allow]

IsAllowUpdateFile(id, bucket_id) ==
  /\ Callable
  /\ dao' = Asked("is_allow_update_file", id, bucket_id,
                  is_allow_update_file(db, id, bucket_id))
  /\ UNCHANGED db

IsAllowDeleteFile(id, bucket_id) ==
  /\ Callable
  /\ dao' = Asked("is_allow_delete_file", id, bucket_id,
                  is_allow_delete_file(db, id, bucket_id))
  /\ UNCHANGED db

\* try_join! of the two rule deletions: an Err of either ends the join at
\* once and drops the other, Ok of both lets db_delete go on.
Joined_either(col, buc) ==
  IF col = "ok" \/ buc = "ok" THEN "ok"
  ELSE IF col = "err" \/ buc = "err" THEN "err" ELSE "pending"

Joined(col, buc) ==
  IF col = "err" \/ buc = "err" THEN "err"
  ELSE IF col = "ok" /\ buc = "ok" THEN "ok" ELSE "pending"

Polled(c) ==
  CASE Joined(c.col, c.buc) = "err" ->
         [c EXCEPT !.pc = "returned", !.result = "rule_err"]
    [] Joined(c.col, c.buc) = "ok" -> [c EXCEPT !.pc = "delete"]
    [] OTHER -> c

DbDelete(id) ==
  /\ Callable
  /\ dao' = [NoCall EXCEPT !.op = "db_delete", !.id = id, !.pc = "join",
                           !.was = id \in db.tokens]
  /\ UNCHANGED db

\* CollectionRuleDao::db_delete_many_by_token_id comes back, Ok or Err.
CollectionRulesDeleted(ok) ==
  /\ dao.pc = "join"
  /\ dao.col = "pending"
  /\ db' = IF ok
           THEN [db EXCEPT !.collection_rules = {r \in @ : r[1] # dao.id}]
           ELSE db
  /\ dao' = Polled([dao EXCEPT !.col = IF ok THEN "ok" ELSE "err"])

\* BucketRuleDao::db_delete_many_by_token_id comes back, Ok or Err.
BucketRulesDeleted(ok) ==
  /\ dao.pc = "join"
  /\ dao.buc = "pending"
  /\ db' = IF ok
           THEN [db EXCEPT !.bucket_rules =
                   [k \in DOMAIN @ |-> IF k[1] = dao.id THEN None ELSE @[k]]]
           ELSE db
  /\ dao' = Polled([dao EXCEPT !.buc = IF ok THEN "ok" ELSE "err"])

\* delete_token comes back, Ok or Err, and db_delete returns what it gave.
TokenDeleted(ok) ==
  /\ dao.pc = "delete"
  /\ db' = IF ok THEN [db EXCEPT !.tokens = @ \ {dao.id}] ELSE db
  /\ dao' = [dao EXCEPT !.pc = "returned",
                        !.result = IF ok THEN "ok" ELSE "token_err"]

Untouched ==
  UNCHANGED <<live, cfg, boot, view, lock, spc, peer, rx, tasks, spawned, lastBuf,
              pre, base, ticks, rounds, handled, injected, out, held, rcv, slept,
              prev>>

InitToken ==
  /\ cfg = HealingConfig
  /\ Service({}, <<>>, <<>>)
  /\ db \in Dbs
  /\ dao = NoCall

NextToken ==
  \/ \E id \in TokenIds, b \in BucketIds : IsAllowUpdateFile(id, b) /\ Untouched
  \/ \E id \in TokenIds, b \in BucketIds : IsAllowDeleteFile(id, b) /\ Untouched
  \/ \E id \in TokenIds : DbDelete(id) /\ Untouched
  \/ \E ok \in BOOLEAN : CollectionRulesDeleted(ok) /\ Untouched
  \/ \E ok \in BOOLEAN : BucketRulesDeleted(ok) /\ Untouched
  \/ \E ok \in BOOLEAN : TokenDeleted(ok) /\ Untouched

SpecToken == InitToken /\ [][NextToken]_vars

\* ----------------------------------------------------------------- claims
\* A handler of node n that stands right after its select call.
JustSelected(n, t) == t \in tasks[n] /\ t.pc = "merged" /\ IsSome(pre[n])

Received(t) == Unwrap(t.msg.peers)

\* The candidates of the select a handler has just made.
Candidates(n, t) == Unite(Unwrap(pre[n]), Received(t), n)

\* C1: right after a select call returns, the view holds at most view_size
\* entries.
C1_BoundedSize ==
  \A n \in live : \A t \in tasks[n] :
    JustSelected(n, t) => Len(view[n]) <= cfg.view_size

\* A select has returned whose candidates exceeded view_size by more than
\* healing_factor + swapping_factor, healing being on.
C1_Witness ==
  \E n \in live : \E t \in tasks[n] :
    /\ JustSelected(n, t)
    /\ Len(Candidates(n, t)) > cfg.view_size + cfg.healing_factor + cfg.swapping_factor
    /\ cfg.healing_factor > 0
    /\ Len(view[n]) = cfg.view_size

\* The received entries of t that are fresher than the resident entry of
\* the same id.
Fresher(n, t) ==
  {i \in IdsOf(Unwrap(pre[n])) :
     \E k \in DOMAIN Received(t) :
       Received(t)[k].id = i /\ Received(t)[k].age < AgeIn(Unwrap(pre[n]), i)}

\* C4 (as claimed): a resident id received again with a lower age is still in
\* the view after the merge, with age 0.
C4_FresherRetained ==
  \A n \in live : \A t \in tasks[n] :
    JustSelected(n, t) =>
      \A i \in Fresher(n, t) : i \in IdsOf(view[n]) /\ AgeIn(view[n], i) = 0

\* C4 (amended): such an id has age 0 after the merge if it is still in the
\* view, and it is still there whenever the candidates fit in view_size.
C4_FresherReset ==
  \A n \in live : \A t \in tasks[n] :
    JustSelected(n, t) =>
      \A i \in Fresher(n, t) :
        /\ i \in IdsOf(view[n]) => AgeIn(view[n], i) = 0
        /\ Len(Candidates(n, t)) <= cfg.view_size => i \in IdsOf(view[n])

\* A merge has reset a resident entry of age 1 that was received with age 0.
C4_Witness ==
  \E n \in live : \E t \in tasks[n] :
    /\ JustSelected(n, t)
    /\ \E i \in Fresher(n, t) : i \in IdsOf(view[n]) /\ AgeIn(view[n], i) = 0

\* The candidates of the select are the six of ages 10, 9, 1, 1, 1, 1.
HealingCase(n, t) ==
  /\ JustSelected(n, t)
  /\ cfg = HealingConfig
  /\ \E f \in HealingAges :
       Candidates(n, t) = [k \in 1..6 |-> Peer(k + 1, f[k])]

\* C5: the oldest candidates go first: min(healing_factor, overflow) of the
\* removed candidates are at least as old as every other candidate; for
\* view_size 3, healing_factor 2, swapping_factor 1 and candidate ages
\* [10,9,1,1,1,1] the entries of age 10 and 9 are gone and three of the four
\* entries of age 1 remain, in their order.
C5_HealingFirst ==
  \A n \in live : \A t \in tasks[n] :
    JustSelected(n, t) =>
      LET u == Candidates(n, t)
          h == Min2(cfg.healing_factor, Max2(0, Len(u) - cfg.view_size))
      IN /\ \E R \in SUBSET DOMAIN u :
              /\ Cardinality(R) = h
              /\ \A r \in R : u[r].id \notin IdsOf(view[n])
              /\ \A r \in R, k \in DOMAIN u \ R : u[r].age >= u[k].age
         /\ HealingCase(n, t) =>
              /\ Len(view[n]) = 3
              /\ AgesOf(view[n]) = {1}
              /\ \E K \in SUBSET DOMAIN u : view[n] = Keep(u, K)

C5_Witness == \E n \in live : \E t \in tasks[n] : HealingCase(n, t)

\* push and pull are set, A has worked through one active round and is not in
\* a second one, B has started none, B has handled A's Request to the end,
\* and A has not yet taken up the Response.
AfterOneRoundOfA ==
  /\ cfg.push /\ cfg.pull
  /\ live = Nodes /\ boot = PairBoot
  /\ rounds[1] = 1 /\ spc[1] # "sent"
  /\ rounds[2] = 0 /\ spc[2] = "idle"
  /\ handled[2] = 1 /\ tasks[2] = {} /\ rx[2] = <<>>
  /\ handled[1] = 0 /\ \A t \in tasks[1] : t.pc = "wait"

\* C10 (as claimed): after one active round from A, B's view holds A with
\* age 0, A's view holds its prior entries aged by 1, and no view repeats an id.
C10_EndToEnd ==
  AfterOneRoundOfA =>
    /\ 1 \in IdsOf(view[2]) /\ AgeIn(view[2], 1) = 0
    /\ view[1] = AgedBy(ServiceNew(1, boot[1]), 1)
    /\ NoDuplicateIds(view[1]) /\ NoDuplicateIds(view[2])

\* C10 (amended): B's view holds A with age 0 right after the merge of A's
\* Request and with age 1 once the handler has ended (its increase_age
\* follows the merge); A's view holds its prior entries aged by 1, and no
\* view repeats an id.
C10_EndToEndAged ==
  /\ AfterOneRoundOfA =>
       /\ 1 \in IdsOf(view[2]) /\ AgeIn(view[2], 1) = 1
       /\ view[1] = AgedBy(ServiceNew(1, boot[1]), 1)
       /\ NoDuplicateIds(view[1]) /\ NoDuplicateIds(view[2])
  /\ (/\ cfg.push /\ cfg.pull /\ live = Nodes /\ boot = PairBoot
      /\ rounds[2] = 0 /\ spc[2] = "idle" /\ handled[2] = 0) =>
       \A t \in tasks[2] :
         t.pc = "merged" => 1 \in IdsOf(view[2]) /\ AgeIn(view[2], 1) = 0

\* The round is over, the Request handled, and the Response is on its way.
C10_Witness == AfterOneRoundOfA /\ (rx[1] # <<>> \/ tasks[1] # {})

C3_UniqueIds == \A n \in live : NoDuplicateIds(view[n])

\* The bootstrap list repeated an id, and a merge of a list that repeats an
\* id and names a resident id has just been made.
C3_Witness ==
  \E n \in live : \E t \in tasks[n] :
    /\ JustSelected(n, t)
    /\ ~NoDuplicateIds(boot[n])
    /\ ~NoDuplicateIds(Received(t))
    /\ IdsOf(Received(t)) \cap IdsOf(Unwrap(pre[n])) # {}

\* C6 (as claimed): every buffer build_local_view_buffer returns holds exactly
\* one entry with the local id, and that entry has age 0.
C6_BufferHasLocal ==
  \A n \in live :
    IsSome(lastBuf[n]) =>
      LET b == Unwrap(lastBuf[n]).buffer IN
        /\ Cardinality({k \in DOMAIN b : b[k].id = n}) = 1
        /\ \A k \in DOMAIN b : b[k].id = n => b[k].age = 0

\* C7: the buffer has length min(view_size, len(view) + 1) and repeats no id.
C7_BufferLength ==
  \A n \in live :
    IsSome(lastBuf[n]) =>
      LET b == Unwrap(lastBuf[n]) IN
        /\ Len(b.buffer) = Min2(cfg.view_size, Len(b.of) + 1)
        /\ NoDuplicateIds(b.buffer)

\* A buffer was built of a view that, with the local entry, exceeds view_size.
C7_Witness ==
  \E n \in live :
    /\ IsSome(lastBuf[n])
    /\ Len(Unwrap(lastBuf[n]).of) >= 1
    /\ Len(Unwrap(lastBuf[n]).of) + 1 > cfg.view_size

TiedExample == <<Peer(2, 3), Peer(3, 7), Peer(4, 7), Peer(5, 2)>>

C9_AgedByTicks == \A n \in live : view[n] = AgedBy(base[n], ticks[n])

\* A view of two entries has been aged twice since its last merge.
C9_Witness ==
  \E n \in live : ticks[n] >= 2 /\ Len(view[n]) >= 2 /\ handled[n] > 0

\* The tasks of node n that stand inside their critical section on the view.
Inside(n) ==
  (IF spc[n] \in {"sent", "sleep"} THEN {BySender} ELSE {})
    \cup {ByHandler(t.tid) : t \in {u \in tasks[n] : u.pc \in {"replied", "merged"}}}

\* C11: at most one task of a node is inside its critical section, and it is
\* the holder of the lock; from select_peer to increase_age of a round, and
\* from the buffer to the merge of a handler, the view is as the holder found
\* or made it.
C11_OneInCriticalSection ==
  \A n \in live :
    /\ Cardinality(Inside(n)) <= 1
    /\ Inside(n) = (IF lock[n] = Free THEN {} ELSE {lock[n]})
    /\ IsSome(held[n]) <=> lock[n] # Free
    /\ spc[n] = "sent" => view[n] = Unwrap(held[n])
    /\ spc[n] = "sleep" =>
         view[n] = (IF IsSome(peer[n]) THEN AfterRound(Unwrap(held[n]))
                    ELSE Unwrap(held[n]))
    /\ \A t \in tasks[n] :
         /\ t.pc = "replied" => view[n] = Unwrap(held[n])
         /\ t.pc = "merged" =>
              view[n] \in ReceiverSelect(cfg, Unwrap(held[n]), n, t.msg.peers)

\* A handler waits for the lock while the active loop is between its
\* select_peer and its increase_age.
C11_Witness ==
  \E n \in live :
    /\ spc[n] = "sent"
    /\ \E t \in tasks[n] : t.pc = "wait" /\ IsSome(t.msg.peers)

HasPeers(t) == IsSome(t.msg.peers) /\ Len(Unwrap(t.msg.peers)) > 0

\* Handler t of node n is no more after this step.
Gone(n, t) == \A u \in tasks'[n] : u.tid # t.tid

\* Handler t of node n ends with this step.
Ends(n, t) == t.pc = "merged" /\ handled'[n] = handled[n] + 1 /\ Gone(n, t)

HandlersDone ==
  \A n \in live : rx[n] = <<>> /\ tasks[n] = {} /\ handled[n] = spawned[n]

\* C12: however the handlers of the waiting messages interleave, a handler
\* leaves only after its merge, a message with peers is merged when its
\* handler has the lock and not again, each handler leaves the view as its
\* merge and then increase_age make it of the view it found when it took the
\* lock (so the handlers compose one after another in the order of the lock),
\* and in the end every message has been handled.
C12_HandlersSerialised ==
  /\ [][\A n \in live : \A t \in tasks[n] :
          /\ Gone(n, t) =>
               /\ Ends(n, t)
               /\ HasPeers(t) => IsSome(pre[n])
               /\ view'[n] \in
                    {increase_age(w) :
                       w \in IF HasPeers(t)
                             THEN select(Unwrap(held[n]), n, cfg.view_size,
                                         cfg.healing_factor, cfg.swapping_factor,
                                         Unwrap(t.msg.peers))
                             ELSE {Unwrap(held[n])}}
          /\ (t.pc = "merged" /\ ~Gone(n, t)) => UNCHANGED view]_vars
  /\ <>[]HandlersDone

\* A handler spawned later has made its merge while an earlier message with
\* peers still waits for the lock.
C12_Witness ==
  \E n \in live : \E t1, t2 \in tasks[n] :
    /\ t1.tid > t2.tid
    /\ JustSelected(n, t1)
    /\ t2.pc = "wait" /\ HasPeers(t2)

\* C13 (as claimed): a node that started with an empty view holds a peer once
\* it has handled any inbound message.
C13_AnyMessageHeals ==
  \A n \in live : (boot[n] = <<>> /\ handled[n] >= 1) => view[n] # <<>>

\* A round is about to start with a peer in the view (and within the rounds
\* followed here).
RoundDue(n) == view[n] # <<>> /\ spc[n] = "idle" /\ rounds[n] < MaxRounds

RequestSent(n) ==
  /\ spc[n] = "sent"
  /\ Len(out[n]) = 1
  /\ out[n][1].msg.kind = Request
  /\ out[n][1].to \in IdsOf(view[n])

\* C13 (amended): the merge of a message that names a peer other than the
\* node itself leaves the view non-empty, a handler's steps never empty a view
\* that holds a peer, and with a peer in the view the next active round sends
\* a Request to a resident peer.
C13_PeersHeal ==
  /\ [](\A n \in live : \A t \in tasks[n] :
          (JustSelected(n, t) /\ IdsOf(Received(t)) \ {n} # {}) => view[n] # <<>>)
  /\ [][\A n \in live : view[n] # <<>> => view'[n] # <<>>]_vars
  /\ RoundDue(1) ~> RequestSent(1)

\* A node that started with an empty view has handled a message and is sending
\* a Request to the peer it learnt of.
C13_Witness ==
  \E n \in live : boot[n] = <<>> /\ handled[n] >= 1 /\ RequestSent(n)

\* C14 (as claimed): whenever no task is inside a merge, a view holds at most
\* view_size entries, the view new builds of a longer bootstrap list included.
C14_BoundedAtRest ==
  \A n \in live :
    (\A t \in tasks[n] : t.pc # "replied") => Len(view[n]) <= cfg.view_size

\* C15 (as claimed): whatever happens (failed sends, an empty view, anomalous
\* messages, the inbound channel closed by its senders), the passive loop has
\* not left its receiving loop and the active loop is at a point of its loop
\* body from which a further round starts.
C15_NoTerminalState ==
  \A n \in live : rcv[n] # "ended" /\ spc[n] \in {"idle", "sent", "sleep"}

\* Handler t of node n goes from one point to the next with this step.
Steps(n, t, from, to) == t.pc = from /\ [t EXCEPT !.pc = to] \in tasks'[n]

\* The views select may make of v and the peers of t's message.
SelectOf(v, n, t) ==
  select(v, n, cfg.view_size, cfg.healing_factor, cfg.swapping_factor,
         Unwrap(t.msg.peers))

\* C16: a handler, whatever the kind and payload of its message, raises the
\* ages once, by its last step; its steps before leave the ages of the view it
\* found alone but for the merge, which is made of the view not yet aged.
C16_AgedOncePerMessage ==
  [][\A n \in live : \A t \in tasks[n] :
       /\ Gone(n, t) => t.pc = "merged" /\ view'[n] = increase_age(view[n])
       /\ Steps(n, t, "wait", "replied") => view'[n] = view[n]
       /\ Steps(n, t, "replied", "merged") =>
            view'[n] \in (IF HasPeers(t) THEN SelectOf(Unwrap(held[n]), n, t)
                          ELSE {Unwrap(held[n])})]_vars

\* A message was merged and the view aged once since, by the handler.
C16_Witness ==
  \E n \in live :
    /\ handled[n] >= 1 /\ rounds[n] = 0 /\ ticks[n] = 1
    /\ lock[n] = Free
    /\ view[n] # <<>>
    /\ IdsOf(view[n]) # IdsOf(boot[n])

\* C17: the handler that has passed its reply has made one send, of a
\* Response carrying the buffer to the sender's address, when the message is a
\* Request and pull is set, and no send otherwise; it makes none after.
C17_ReplyIffRequestAndPull ==
  \A n \in live : \A t \in tasks[n] :
    t.pc \in {"replied", "merged"} =>
      IF t.msg.kind = Request /\ cfg.pull
      THEN /\ Len(out[n]) = 1
           /\ out[n][1].to = t.msg.from
           /\ out[n][1].msg.from = n
           /\ out[n][1].msg.kind = Response
           /\ IsSome(out[n][1].msg.peers)
           /\ t.pc = "replied" =>
                /\ IsSome(lastBuf[n])
                /\ out[n][1].msg.peers = Some(Unwrap(lastBuf[n]).buffer)
                /\ Unwrap(lastBuf[n]).of = Unwrap(held[n])
      ELSE out[n] = <<>>

\* A Request has been answered while pull is set, the send having failed.
C17_Witness ==
  \E n \in live : \E t \in tasks[n] :
    /\ t.pc = "replied" /\ t.msg.kind = Request /\ cfg.pull
    /\ Len(out[n]) = 1 /\ ~out[n][1].ok

\* The Response of the handler that holds the lock failed to be sent.
ReplyFailed(n) == lock[n].kind = "handler" /\ out[n] # <<>> /\ ~out[n][1].ok

\* C18: after a failed send of the Response the handler has made that one
\* send only, has merged the peers of the message as it would have after a
\* send that went well, and ends with increase_age.
C18_FailedReplyStillMerges ==
  /\ [](\A n \in live : \A t \in tasks[n] :
          (t.pc = "merged" /\ ReplyFailed(n)) =>
            /\ Len(out[n]) = 1
            /\ HasPeers(t) => IsSome(pre[n]) /\ view[n] \in SelectOf(Unwrap(held[n]), n, t)
            /\ ~HasPeers(t) => view[n] = Unwrap(held[n]))
  /\ [][\A n \in live : \A t \in tasks[n] :
          (Gone(n, t) /\ ReplyFailed(n)) => view'[n] = increase_age(view[n])]_vars

\* The send of the Response failed and the peers of the Request are merged.
C18_Witness ==
  \E n \in live : \E t \in tasks[n] :
    /\ t.pc = "merged" /\ ReplyFailed(n) /\ HasPeers(t)
    /\ IsSome(pre[n]) /\ view[n] # Unwrap(held[n])

\* C19: the handler of a message with peers None or Some([]) makes no merge:
\* its merge step leaves the view alone, and it ends with the view it found,
\* every age raised by 1, the ids and their order unchanged.
C19_NoPeersNoSelect ==
  [][\A n \in live : \A t \in tasks[n] :
       ~HasPeers(t) =>
         /\ Steps(n, t, "replied", "merged") => view'[n] = view[n] /\ pre'[n] = None
         /\ Gone(n, t) => view'[n] = AgedBy(Unwrap(held[n]), 1)]_vars

\* A handler has passed its merge step with an empty list, the view holding
\* more entries than view_size.
C19_Witness ==
  \E n \in live : \E t \in tasks[n] :
    /\ t.pc = "merged" /\ t.msg.peers = Some(<<>>)
    /\ Len(view[n]) > cfg.view_size

\* C20: a round with a peer makes one send, of a Request to the address of the
\* peer select_peer returned, carrying Some(buffer) when push is set and None
\* when it is not; a round without a peer makes no send, leaves the (empty)
\* view alone and goes to sleep.
C20_OneRequestPerRound ==
  \A n \in live :
    /\ spc[n] = "sent" =>
         /\ Len(out[n]) = 1
         /\ out[n][1].to = Unwrap(peer[n]).id
         /\ out[n][1].msg.from = n
         /\ out[n][1].msg.kind = Request
         /\ cfg.push =>
              /\ IsSome(lastBuf[n])
              /\ out[n][1].msg.peers = Some(Unwrap(lastBuf[n]).buffer)
         /\ ~cfg.push => out[n][1].msg.peers = None
    /\ spc[n] = "sleep" =>
         IF Unwrap(held[n]) = <<>>
         THEN out[n] = <<>> /\ view[n] = <<>> /\ peer[n] = None
         ELSE Len(out[n]) = 1 /\ out[n][1].msg.kind = Request

\* A second round sends a Request without a view, push not being set.
C20_Witness ==
  \E n \in live :
    spc[n] = "sent" /\ rounds[n] >= 1 /\ ~cfg.push /\ Len(out[n]) = 1

\* The Request of the round the active loop of n is in failed to be sent.
SendFailed(n) == lock[n].kind = "sender" /\ out[n] # <<>> /\ ~out[n][1].ok

\* C21: after a failed send of the Request the round makes no further send,
\* raises every age once, goes to sleep, and the loop starts its next round
\* from there.
C21_FailedSendStillAges ==
  /\ [](\A n \in live :
          (SendFailed(n) /\ spc[n] = "sleep") =>
            /\ Len(out[n]) = 1
            /\ view[n] = increase_age(Unwrap(held[n])))
  /\ [][\A n \in live :
          /\ (SendFailed(n) /\ spc[n] = "sent" /\ spc'[n] # "sent") =>
               /\ spc'[n] = "sleep"
               /\ view'[n] = increase_age(view[n])
               /\ rounds'[n] = rounds[n] + 1
               /\ out'[n] = out[n]
          /\ (SendFailed(n) /\ spc[n] = "sleep" /\ spc'[n] # "sleep") =>
               /\ spc'[n] = "idle"
               /\ lock'[n] = Free
               /\ view'[n] = view[n]]_vars

\* The second round of a node is asleep after its send failed, the view
\* holding a peer.
C21_Witness ==
  \E n \in live :
    /\ rounds[n] >= 2 /\ spc[n] = "sleep"
    /\ SendFailed(n)
    /\ view[n] # <<>>

\* C22: whenever a buffer has just been built, by the active loop or by a
\* handler, the resident view is the one the buffer was built of (ids, order
\* and ages), and it holds no entry of the local node.
C22_BufferLeavesView ==
  \A n \in live :
    IsSome(lastBuf[n]) =>
      /\ view[n] = Unwrap(lastBuf[n]).of
      /\ view[n] = Unwrap(held[n])
      /\ n \notin IdsOf(view[n])

\* A handler has built a buffer that holds the local entry, of a view that
\* holds a peer.
C22_Witness ==
  \E n \in live : \E t \in tasks[n] :
    /\ t.pc = "replied"
    /\ IsSome(lastBuf[n])
    /\ n \in IdsOf(Unwrap(lastBuf[n]).buffer)
    /\ view[n] # <<>>

\* C25: while the active loop is sending or asleep the lock is its own and no
\* handler is inside its critical section; a handler takes the lock only
\* when the active loop is between the end of a sleep and its next taking of
\* the lock.
C25_LockHeldThroughSleep ==
  /\ [](\A n \in live :
          spc[n] \in {"sent", "sleep"} =>
            /\ lock[n] = BySender
            /\ \A t \in tasks[n] : t.pc = "wait")
  /\ [][\A n \in live : \A t \in tasks[n] :
          (Steps(n, t, "wait", "replied") \/ Steps(n, t, "replied", "merged")
             \/ (t.pc = "merged" /\ Gone(n, t))) => spc[n] = "idle"]_vars

\* The active loop is asleep after a round with a peer while a message waits
\* for its handler to get the lock.
C25_Witness ==
  \E n \in live :
    /\ spc[n] = "sleep" /\ IsSome(peer[n])
    /\ \E t \in tasks[n] : t.pc = "wait"

UnionIds(n, t) == (IdsOf(Unwrap(pre[n])) \cup IdsOf(Received(t))) \ {n}

\* C23: right after select the view holds min(view_size, distinct ids of the
\* union without the local id) entries: nothing is removed when the union
\* fits, and exactly the overflow otherwise.
C23_ExactSize ==
  \A n \in live : \A t \in tasks[n] :
    JustSelected(n, t) =>
      Len(view[n]) = Min2(cfg.view_size, Cardinality(UnionIds(n, t)))

\* A select has trimmed an overflow that is below healing_factor.
C23_Witness ==
  \E n \in live : \E t \in tasks[n] :
    /\ JustSelected(n, t)
    /\ Cardinality(UnionIds(n, t)) > cfg.view_size
    /\ Cardinality(UnionIds(n, t)) - cfg.view_size < cfg.healing_factor
    /\ Len(view[n]) = cfg.view_size

\* The messages that have arrived at the nodes, handled or not yet.
Arrived == [n \in live |-> spawned[n] + Len(rx[n])]

\* The active rounds started so far, those still at their send included.
RoundsStarted == RoundsDone + Cardinality({n \in live : spc[n] = "sent"})

\* C26: the handler of a Response makes no send, and the messages that have
\* arrived at the two nodes are at most two for each active round started (its
\* Request and the Response to it).
C26_NoPingPong ==
  /\ \A n \in live : \A t \in tasks[n] :
       (t.msg.kind = Response /\ t.pc \in {"replied", "merged"}) => out[n] = <<>>
  /\ Sum(Arrived, live) <= 2 * RoundsStarted
  /\ \A n \in live : \A k \in DOMAIN rx[n] :
       rx[n][k].kind = Response => Sum(Arrived, live) >= 2

\* The Response to the Request of a round has been merged by the node that
\* sent the Request, two messages having arrived in all.
C26_Witness ==
  /\ live = Nodes
  /\ \E n \in live : \E t \in tasks[n] :
       /\ t.msg.kind = Response /\ t.pc = "merged" /\ HasPeers(t)
       /\ cfg.pull
  /\ Sum(Arrived, live) = 2

\* The buffer of the Response the handler holding the lock of n has sent.
Replied(n) == Unwrap(out[n][1].msg.peers)

\* C27: the handler of a Request has sent its Response by the time it merges,
\* and every entry of the Response is an entry of the view as the handler
\* found it, or the local entry: none is learnt from the Request itself, and
\* no age is one the Request brought.
C27_ReplyBeforeMerge ==
  \A n \in live : \A t \in tasks[n] :
    (t.pc \in {"replied", "merged"} /\ t.msg.kind = Request /\ cfg.pull) =>
      /\ out[n] # <<>>
      /\ \A k \in DOMAIN Replied(n) :
           \/ Replied(n)[k] = Peer(n, 0)
           \/ \E j \in DOMAIN Unwrap(held[n]) : Unwrap(held[n])[j] = Replied(n)[k]

\* A Request that names a peer the node did not know has been answered and
\* merged: the view holds the new peer, the Response does not.
C27_Witness ==
  \E n \in live : \E t \in tasks[n] :
    /\ JustSelected(n, t) /\ t.msg.kind = Request /\ cfg.pull
    /\ out[n] # <<>>
    /\ Unwrap(held[n]) # <<>>
    /\ \E i \in IdsOf(view[n]) \ IdsOf(Unwrap(held[n])) : i \notin IdsOf(Replied(n))

\* C24 (as claimed): the sleep of a round is period + d milliseconds with d
\* in 0..period_deviation: it is never below period nor above
\* period + period_deviation, and it is period when period_deviation is 0.
C24_SleepWithinJitter ==
  \A n \in live :
    /\ spc[n] # "panicked"
    /\ spc[n] = "sleep" =>
         /\ IsSome(slept[n])
         /\ Unwrap(slept[n]) >= cfg.period
         /\ Unwrap(slept[n]) <= cfg.period + cfg.period_deviation
         /\ cfg.period_deviation = 0 => Unwrap(slept[n]) = cfg.period

\* C29 (as claimed): is_allow_delete_file allows the deletion of a file
\* exactly when there is a bucket rule of (token id, bucket id) whose
\* delete_one is set, whatever its update_one is, and it is false when there
\* is no rule.
C29_DeleteByDeleteFlag ==
  dao.op = "is_allow_delete_file" =>
    LET rule == db_select_by_token_id_and_bucket_id(db, dao.id, dao.bucket)
    IN  dao.allow = (IsSome(rule) /\ Unwrap(rule).delete_one)

RulesOf(id) ==
  {r \in db.collection_rules : r[1] = id}
    \cup {k \in DOMAIN db.bucket_rules : k[1] = id /\ IsSome(db.bucket_rules[k])}

\* C30: db_delete removes the token row only when both rule deletions have
\* come back Ok, and a db_delete that returns the error of a rule deletion
\* leaves the token row where it was.
C30_TokenAfterRules ==
  /\ [](dao.op = "db_delete" /\ dao.result = "rule_err" /\ dao.was
          => dao.id \in db.tokens)
  /\ [][\A id \in TokenIds :
          (id \in db.tokens /\ id \notin db'.tokens) =>
            /\ dao.op = "db_delete" /\ dao.id = id
            /\ dao.col = "ok" /\ dao.buc = "ok"
            /\ RulesOf(id) = {}]_vars

\* A db_delete of a token that was there has returned the Err of the bucket
\* rule deletion after the collection rules were deleted.
C30_Witness ==
  /\ dao.op = "db_delete" /\ dao.pc = "returned" /\ dao.result = "rule_err"
  /\ dao.was /\ dao.col = "ok" /\ dao.buc = "err"

====
